---- MODULE Spec2Model ----
(***************************************************************************)
(* BiDoc (src/src/bidoc.ts): the definition/reference registry of bimark.  *)
(*                                                                         *)
(* Strings are sequences of one-character strings, so that slugification,  *)
(* substring matching and anchor formatting are computed, not assumed.     *)
(* A document is a sequence of items: definition markers [[name|alias:id]],*)
(* explicit reference markers [[#id]], escaped reference markers [[!name]] *)
(* and runs of plain text.  The lexing itself belongs to BiParser.         *)
(***************************************************************************)
EXTENDS Integers, Sequences, FiniteSets, TLC

---------------------------------------------------------------------------
(* Bounds and input domains *)

MaxDocDefs == 2
MaxDocLen == 2

Names == {<<"A">>, <<"a">>, <<"x">>}
AliasLists == {<<>>, <<<<"x">>, <<"a">>>>}
ExplicitIds == {<<>>, <<"x">>}
Paths == <<"p1", "p2">>

SeqsUpTo(S, n) == UNION {[1..k -> S] : k \in 0..n}

Range(s) == {s[i] : i \in 1..Len(s)}

---------------------------------------------------------------------------
(* Documents *)

DefMarker(n, al, i) == [kind |-> "def", name |-> n, alias |-> al, id |-> i]

ExplicitMarker(i) == [kind |-> "explicit", name |-> <<>>, alias |-> <<>>, id |-> i]

EscapedMarker(n) == [kind |-> "escaped", name |-> n, alias |-> <<>>, id |-> <<>>]

Text(s) == [kind |-> "text", name |-> s, alias |-> <<>>, id |-> <<>>]

DefMarkers == {DefMarker(n, al, i) : n \in Names, al \in AliasLists, i \in ExplicitIds}

CollectDocs == SeqsUpTo(DefMarkers, MaxDocDefs) \ {<<>>}

(* The corpus of the rendering scenarios: two definitions whose names and  *)
(* alias overlap as text ("a" inside "ab", "b" inside "ab").               *)
CorpusMarkers == {DefMarker(<<"a">>, <<>>, <<>>), DefMarker(<<"a", "b">>, <<<<"b">>>>, <<"x">>)}

CorpusDocs == {<<m>> : m \in CorpusMarkers}

RenderItems ==
  {ExplicitMarker(<<"a">>), ExplicitMarker(<<"x">>), EscapedMarker(<<"a">>),
   Text(<<"b", "a", "b">>), DefMarker(<<"a">>, <<>>, <<>>)}

(* Definition markers whose names are made of punctuation, in part or in   *)
(* whole.                                                                  *)
SlugMarkers == {DefMarker(n, <<>>, i) : n \in {<<".">>, <<"a">>, <<"a", ".">>}, i \in ExplicitIds}

SlugDocs == SeqsUpTo(SlugMarkers, MaxDocDefs) \ {<<>>}

RenderDocs ==
  {doc \in SeqsUpTo(RenderItems, MaxDocLen) \ {<<>>} :
     \A i \in 1..(Len(doc) - 1) : ~(doc[i].kind = "text" /\ doc[i + 1].kind = "text")}

(* Three definitions whose names occur inside one another, and documents   *)
(* whose text holds overlapping occurrences of them.                       *)
OverlapMarkers == {DefMarker(n, <<>>, <<>>) : n \in {<<"a">>, <<"a", "b">>, <<"b">>}}

OverlapCorpus == {<<m>> : m \in OverlapMarkers}

OverlapItems == {Text(<<"b", "a", "b">>), Text(<<"a", "b">>), ExplicitMarker(<<"b">>)}

OverlapDocs ==
  {doc \in SeqsUpTo(OverlapItems, MaxDocLen) \ {<<>>} :
     \A i \in 1..(Len(doc) - 1) : ~(doc[i].kind = "text" /\ doc[i + 1].kind = "text")}

---------------------------------------------------------------------------
(* Identifier generators *)

RECURSIVE uslug(_)
uslug(s) ==
  IF s = <<>> THEN <<>>
  ELSE LET c == Head(s)
           r == uslug(Tail(s))
       IN IF c = "." THEN r
          ELSE IF c = "A" THEN <<"a">> \o r
          ELSE <<c>> \o r

defIdGenerator(name) == uslug(name)

---------------------------------------------------------------------------
(* Map<string, Definition>: entries in insertion order; a Definition object *)
(* is denoted by its position in defs.                                      *)

Undefined == 0

Keys(m) == {m[i].key : i \in 1..Len(m)}

Has(m, k) == \E i \in 1..Len(m) : m[i].key = k

Get(m, k) == IF Has(m, k) THEN m[CHOOSE i \in 1..Len(m) : m[i].key = k].def ELSE Undefined

MapSet(m, k, v) ==
  IF Has(m, k)
  THEN [i \in 1..Len(m) |-> IF m[i].key = k THEN [key |-> k, def |-> v] ELSE m[i]]
  ELSE Append(m, [key |-> k, def |-> v])

---------------------------------------------------------------------------
(* State *)

VARIABLES name2def, id2def, defs, rendered, invoked, last

vars == <<name2def, id2def, defs, rendered, invoked, last>>

(* What the last call did: the operation, its error ("none" when it       *)
(* returned), the key the error or the query names, how many definitions  *)
(* or references the call recorded, the value it returned (for            *)
(* renderText: the ids of the definitions it handed to defRenderer), and, *)
(* for collectDefinition, whether the names and aliases of its text were  *)
(* pairwise distinct and new to the registry.                             *)
Outcome(op, err, key, done, result, fresh) ==
  [op |-> op, err |-> err, key |-> key, done |-> done, result |-> result, fresh |-> fresh]

Registry == [name2def |-> name2def, id2def |-> id2def, defs |-> defs]

---------------------------------------------------------------------------
(* collectDefinition *)

parseDefinition(text) ==
  LET ds == SelectSeq(text, LAMBDA it : it.kind = "def")
  IN [i \in 1..Len(ds) |-> [name |-> ds[i].name, alias |-> ds[i].alias, id |-> ds[i].id, refs |-> <<>>]]

assignId_Always(d) == [d EXCEPT !.id = defIdGenerator(d.name)]

assignId(d) == IF Len(d.id) = 0 THEN [d EXCEPT !.id = defIdGenerator(d.name)] ELSE d

duplicateOf_NoIdCheck(reg, d) ==
  IF Has(reg.name2def, d.name) \/ \E i \in 1..Len(d.alias) : Has(reg.name2def, d.alias[i])
  THEN [err |-> "name", key |-> d.name]
  ELSE [err |-> "none", key |-> <<>>]

duplicateOf_NoAliasCheck(reg, d) ==
  IF Has(reg.name2def, d.name) THEN [err |-> "name", key |-> d.name]
  ELSE IF Has(reg.id2def, d.id) THEN [err |-> "id", key |-> d.id]
  ELSE [err |-> "none", key |-> <<>>]

duplicateOf(reg, d) ==
  IF Has(reg.name2def, d.name) THEN [err |-> "name", key |-> d.name]
  ELSE IF Has(reg.id2def, d.id) THEN [err |-> "id", key |-> d.id]
  ELSE IF \E i \in 1..Len(d.alias) : Has(reg.name2def, d.alias[i])
       THEN [err |-> "name", key |-> d.alias[CHOOSE i \in 1..Len(d.alias) :
                                              /\ Has(reg.name2def, d.alias[i])
                                              /\ \A j \in 1..(i - 1) : ~Has(reg.name2def, d.alias[j])]]
  ELSE [err |-> "none", key |-> <<>>]

(* only the first alias is registered *)
setAliases_FirstOnly(m, al, h) ==
  IF al = <<>> THEN m ELSE MapSet(m, Head(al), h)

RECURSIVE setAliases(_, _, _)
setAliases(m, al, h) ==
  IF al = <<>> THEN m ELSE setAliases(MapSet(m, Head(al), h), Tail(al), h)

register_NoAlias(reg, d) ==
  LET h == Len(reg.defs) + 1
  IN [name2def |-> MapSet(reg.name2def, d.name, h),
      id2def |-> MapSet(reg.id2def, d.id, h),
      defs |-> Append(reg.defs, d)]

register(reg, d) ==
  LET h == Len(reg.defs) + 1
  IN [name2def |-> setAliases(MapSet(reg.name2def, d.name, h), d.alias, h),
      id2def |-> MapSet(reg.id2def, d.id, h),
      defs |-> Append(reg.defs, d)]

RECURSIVE collectEach(_, _, _)
collectEach(reg, ds, done) ==
  IF ds = <<>> THEN [reg |-> reg, err |-> "none", key |-> <<>>, done |-> done]
  ELSE LET d == assignId(Head(ds))
           dup == duplicateOf(reg, d)
       IN IF dup.err # "none"
          THEN [reg |-> reg, err |-> dup.err, key |-> dup.key, done |-> done]
          ELSE collectEach(register(reg, d), Tail(ds), done + 1)

collectDefinition_Atomic(reg, text) ==
  LET res == collectEach(reg, parseDefinition(text), 0)
  IN IF res.err = "none" THEN res ELSE [res EXCEPT !.reg = reg, !.done = 0]

collectDefinition(reg, text) == collectEach(reg, parseDefinition(text), 0)

NamesOf(d) == {d.name} \cup Range(d.alias)

AllNames(text) == UNION {NamesOf(text[i]) : i \in 1..Len(text)}

RECURSIVE NameCount(_)
NameCount(text) == IF text = <<>> THEN 0 ELSE 1 + Len(Head(text).alias) + NameCount(Tail(text))

(* every name and alias of the text occurs once in it and is new to the registry *)
NamesDistinct(text) ==
  /\ Cardinality(AllNames(text)) = NameCount(text)
  /\ AllNames(text) \cap Keys(name2def) = {}

CollectDefinition(docs) ==
  \E text \in docs :
    LET res == collectDefinition(Registry, text)
    IN /\ name2def' = res.reg.name2def
       /\ id2def' = res.reg.id2def
       /\ defs' = res.reg.defs
       /\ last' = Outcome("collectDefinition", res.err, res.key, res.done, <<>>, NamesDistinct(text))
       /\ UNCHANGED <<rendered, invoked>>

---------------------------------------------------------------------------
(* Fragments.  by records the stage that rewrote the fragment ("none" for   *)
(* text no stage has matched).                                              *)

Fragment(kind, content, skip, by) ==
  [kind |-> kind, content |-> content, skip |-> skip, by |-> by, src |-> content]

MarkerText(it) ==
  CASE it.kind = "explicit" -> <<"[", "[", "#">> \o it.id \o <<"]", "]">>
    [] it.kind = "escaped" -> <<"[", "[", "!">> \o it.name \o <<"]", "]">>
    [] it.kind = "text" -> it.name
    [] OTHER -> <<"[", "[">> \o it.name \o <<"]", "]">>

(* s.slice(from, -fromEnd) *)
Slice(s, from, fromEnd) == SubSeq(s, from + 1, Len(s) - fromEnd)

lastIndex_ByLength(refs) == Len(refs) - 1

lastIndex(refs) == IF refs = <<>> THEN -1 ELSE refs[Len(refs)].index

Reference(h, path, type, index, name) ==
  [def |-> h, path |-> path, type |-> type, index |-> index, name |-> name]

(* the new reference is put in front of the recorded ones *)
pushRef_Prepend(ds, h, ref) == [ds EXCEPT ![h].refs = <<ref>> \o @]

pushRef(ds, h, ref) == [ds EXCEPT ![h].refs = Append(@, ref)]

---------------------------------------------------------------------------
(* renderDefinition *)

parseDefinitionFromFragments(doc) ==
  [i \in 1..Len(doc) |->
     IF doc[i].kind = "def"
     THEN Fragment("def", MarkerText(doc[i]), TRUE, "none")
     ELSE Fragment(doc[i].kind, MarkerText(doc[i]), FALSE, "none")]

renderDefinition(doc) ==
  LET fs == parseDefinitionFromFragments(doc)
      ds == parseDefinition(doc)
  IN [fragments |-> [i \in 1..Len(fs) |-> IF fs[i].kind = "def" THEN [fs[i] EXCEPT !.by = "def"] ELSE fs[i]],
      defCalls |-> [i \in 1..Len(ds) |-> assignId(ds[i])]]
---------------------------------------------------------------------------
(* renderExplicitOrEscapedReference *)

markerType(f) == IF f.kind = "explicit" THEN "explicit" ELSE "escaped"

resolve(f, n2d, i2d) ==
  IF f.kind = "explicit" THEN Get(i2d, Slice(f.content, 3, 2)) ELSE Get(n2d, Slice(f.content, 3, 2))

isMarker(f) == ~f.skip /\ f.kind \in {"explicit", "escaped"}

parseExplicitOrEscapedReference(fragments, n2d, i2d) ==
  LET at == SelectSeq([i \in 1..Len(fragments) |-> i], LAMBDA i : isMarker(fragments[i]))
      dangling == {i \in Range(at) : resolve(fragments[i], n2d, i2d) = Undefined}
      first == CHOOSE i \in dangling : \A j \in dangling : i <= j
  IN IF dangling # {}
     THEN [ok |-> FALSE, key |-> Slice(fragments[first].content, 3, 2), refs |-> <<>>,
           fragments |-> fragments]
     ELSE [ok |-> TRUE, key |-> <<>>,
           refs |-> [k \in 1..Len(at) |->
                       [fragment |-> at[k], type |-> markerType(fragments[at[k]]),
                        def |-> resolve(fragments[at[k]], n2d, i2d)]],
           fragments |-> [i \in 1..Len(fragments) |->
                            IF isMarker(fragments[i]) THEN [fragments[i] EXCEPT !.skip = TRUE]
                            ELSE fragments[i]]]

(* an escaped reference never goes below ordinal 0 *)
explicitOrEscapedIndex_Clamped(type, refs) ==
  IF type = "escaped" THEN (IF lastIndex(refs) < 0 THEN 0 ELSE lastIndex(refs)) ELSE lastIndex(refs) + 1

explicitOrEscapedIndex_Advances(type, refs) == lastIndex(refs) + 1

explicitOrEscapedIndex(type, refs) ==
  IF type = "escaped" THEN lastIndex(refs) ELSE lastIndex(refs) + 1

explicitOrEscapedName(type, content, ds, i2d) ==
  IF type = "escaped" THEN Slice(content, 3, 2) ELSE ds[Get(i2d, Slice(content, 3, 2))].name

RECURSIVE renderEachMarker(_, _, _, _, _, _)
renderEachMarker(rs, path, i2d, ds, fs, calls) ==
  IF rs = <<>> THEN [defs |-> ds, fragments |-> fs, refCalls |-> calls]
  ELSE LET r == Head(rs)
           ref == Reference(r.def, path, r.type,
                            explicitOrEscapedIndex(r.type, ds[r.def].refs),
                            explicitOrEscapedName(r.type, fs[r.fragment].content, ds, i2d))
       IN renderEachMarker(Tail(rs), path, i2d, pushRef(ds, r.def, ref),
                           [fs EXCEPT ![r.fragment].by = r.type,
                                      ![r.fragment].content =
                                         IF r.type = "explicit" THEN <<"<ref>">> ELSE ref.name],
                           IF r.type = "explicit" THEN Append(calls, ref) ELSE calls)

Reverse(s) == [i \in 1..Len(s) |-> s[Len(s) + 1 - i]]

(* the markers are handled from the last of the document to the first *)
renderExplicitOrEscapedReference_LastFirst(reg, path, fragments) ==
  LET res == parseExplicitOrEscapedReference(fragments, reg.name2def, reg.id2def)
  IN IF ~res.ok
     THEN [err |-> "notfound", key |-> res.key, defs |-> reg.defs, fragments |-> fragments,
           refCalls |-> <<>>]
     ELSE LET out == renderEachMarker(Reverse(res.refs), path, reg.id2def, reg.defs, res.fragments, <<>>)
          IN [err |-> "none", key |-> <<>>, defs |-> out.defs, fragments |-> out.fragments,
              refCalls |-> out.refCalls]

renderExplicitOrEscapedReference(reg, path, fragments) ==
  LET res == parseExplicitOrEscapedReference(fragments, reg.name2def, reg.id2def)
  IN IF ~res.ok
     THEN [err |-> "notfound", key |-> res.key, defs |-> reg.defs, fragments |-> fragments,
           refCalls |-> <<>>]
     ELSE LET out == renderEachMarker(res.refs, path, reg.id2def, reg.defs, res.fragments, <<>>)
          IN [err |-> "none", key |-> <<>>, defs |-> out.defs, fragments |-> out.fragments,
              refCalls |-> out.refCalls]

---------------------------------------------------------------------------
(* renderImplicitReference *)

(* the first position at which name occurs in content, 0 when it does not *)
indexOf(content, name) ==
  LET hits == {i \in 1..(Len(content) - Len(name) + 1) : SubSeq(content, i, i + Len(name) - 1) = name}
  IN IF hits = {} THEN 0 ELSE CHOOSE i \in hits : \A j \in hits : i <= j

RECURSIVE splitByName(_, _)
splitByName(content, name) ==
  LET i == indexOf(content, name)
  IN IF content = <<>> THEN <<>>
     ELSE IF i = 0 THEN <<Fragment("text", content, FALSE, "none")>>
     ELSE (IF i = 1 THEN <<>> ELSE <<Fragment("text", SubSeq(content, 1, i - 1), FALSE, "none")>>)
          \o <<Fragment("text", name, TRUE, "match")>>
          \o splitByName(SubSeq(content, i + Len(name), Len(content)), name)

RECURSIVE parseImplicitReference(_, _)
parseImplicitReference(fragments, name) ==
  IF fragments = <<>> THEN <<>>
  ELSE (IF Head(fragments).skip THEN <<Head(fragments)>> ELSE splitByName(Head(fragments).content, name))
       \o parseImplicitReference(Tail(fragments), name)

RECURSIVE renderEachMatch(_, _, _, _, _, _)
renderEachMatch(todo, path, h, ds, fs, calls) ==
  IF todo = <<>> THEN [defs |-> ds, fragments |-> fs, refCalls |-> calls]
  ELSE LET f == Head(todo)
       IN IF f.by # "match"
          THEN renderEachMatch(Tail(todo), path, h, ds, Append(fs, f), calls)
          ELSE LET ref == Reference(h, path, "implicit", lastIndex(ds[h].refs) + 1, f.content)
               IN renderEachMatch(Tail(todo), path, h, pushRef(ds, h, ref),
                                  Append(fs, [f EXCEPT !.by = "implicit", !.content = <<"<ref>">>]),
                                  Append(calls, ref))

(* the matches are recorded without a call of the renderer *)
renderImplicitReference_Silent(path, fragments, ds, h, name) ==
  [renderEachMatch(parseImplicitReference(fragments, name), path, h, ds, <<>>, <<>>) EXCEPT !.refCalls = <<>>]

renderImplicitReference(path, fragments, ds, h, name) ==
  renderEachMatch(parseImplicitReference(fragments, name), path, h, ds, <<>>, <<>>)

---------------------------------------------------------------------------
(* renderText *)

(* the passes visit the names and aliases from the last inserted to the first *)
RECURSIVE renderEachName_LastFirst(_, _, _, _, _)
renderEachName_LastFirst(entries, path, ds, fs, calls) ==
  IF entries = <<>> THEN [defs |-> ds, fragments |-> fs, refCalls |-> calls]
  ELSE LET e == entries[Len(entries)]
           out == renderImplicitReference(path, fs, ds, e.def, e.key)
       IN renderEachName_LastFirst(SubSeq(entries, 1, Len(entries) - 1), path, out.defs, out.fragments,
                                   calls \o out.refCalls)

RECURSIVE renderEachName(_, _, _, _, _)
renderEachName(entries, path, ds, fs, calls) ==
  IF entries = <<>> THEN [defs |-> ds, fragments |-> fs, refCalls |-> calls]
  ELSE LET e == Head(entries)
           out == renderImplicitReference(path, fs, ds, e.def, e.key)
       IN renderEachName(Tail(entries), path, out.defs, out.fragments, calls \o out.refCalls)

(* the implicit passes run before the marker stage *)
renderText_ImplicitFirst(reg, path, doc) ==
  LET s1 == renderDefinition(doc)
      s3 == renderEachName(reg.name2def, path, reg.defs, s1.fragments, <<>>)
      s2 == renderExplicitOrEscapedReference([reg EXCEPT !.defs = s3.defs], path, s3.fragments)
  IN IF s2.err # "none"
     THEN [err |-> s2.err, key |-> s2.key, defs |-> reg.defs, fragments |-> s1.fragments,
           defCalls |-> s1.defCalls, refCalls |-> <<>>]
     ELSE [err |-> "none", key |-> <<>>, defs |-> s2.defs, fragments |-> s2.fragments,
           defCalls |-> s1.defCalls, refCalls |-> s3.refCalls \o s2.refCalls]

renderText_IgnoresFailure(reg, path, doc) ==
  LET s1 == renderDefinition(doc)
      s2 == renderExplicitOrEscapedReference(reg, path, s1.fragments)
      s3 == renderEachName(reg.name2def, path, s2.defs, s2.fragments, s2.refCalls)
  IN [err |-> "none", key |-> <<>>, defs |-> s3.defs, fragments |-> s3.fragments,
      defCalls |-> s1.defCalls, refCalls |-> s3.refCalls]

renderText(reg, path, doc) ==
  LET s1 == renderDefinition(doc)
      s2 == renderExplicitOrEscapedReference(reg, path, s1.fragments)
      s3 == renderEachName(reg.name2def, path, s2.defs, s2.fragments, s2.refCalls)
  IN IF s2.err # "none"
     THEN [err |-> s2.err, key |-> s2.key, defs |-> s2.defs, fragments |-> s2.fragments,
           defCalls |-> s1.defCalls, refCalls |-> s2.refCalls]
     ELSE [err |-> "none", key |-> <<>>, defs |-> s3.defs, fragments |-> s3.fragments,
           defCalls |-> s1.defCalls, refCalls |-> s3.refCalls]

(* what refRenderer is given: the Reference, kept as target, path and index *)
Invocation(ref) == [def |-> ref.def, path |-> ref.path, index |-> ref.index]

RECURSIVE countRefs(_)
countRefs(ds) == IF ds = <<>> THEN 0 ELSE Len(Head(ds).refs) + countRefs(Tail(ds))

(* The escaped markers of the document name registered definitions. *)
escapedKnown(doc, n2d) == \A i \in 1..Len(doc) : doc[i].kind = "escaped" => Has(n2d, doc[i].name)

(* the definitions rendered are registered as collectDefinition would *)
RenderText_Registers(docs) ==
  /\ rendered < Len(Paths)
  /\ \E doc \in docs :
       /\ escapedKnown(doc, name2def)
       /\ LET res == renderText(Registry, Paths[rendered + 1], doc)
              reg == collectDefinition([Registry EXCEPT !.defs = res.defs], doc).reg
          IN /\ defs' = reg.defs
             /\ name2def' = reg.name2def
             /\ id2def' = reg.id2def
             /\ invoked' = invoked \cup {Invocation(res.refCalls[i]) : i \in 1..Len(res.refCalls)}
             /\ last' = Outcome("renderText", res.err, res.key, countRefs(res.defs) - countRefs(defs),
                                [i \in 1..Len(res.defCalls) |-> res.defCalls[i].id], FALSE)
  /\ rendered' = rendered + 1

RenderText(docs) ==
  /\ rendered < Len(Paths)
  /\ \E doc \in docs :
       /\ escapedKnown(doc, name2def)
       /\ \E res \in {renderText(Registry, Paths[rendered + 1], doc)} :
             /\ defs' = res.defs
             /\ invoked' = invoked \cup {Invocation(res.refCalls[i]) : i \in 1..Len(res.refCalls)}
             /\ last' = Outcome("renderText", res.err, res.key, countRefs(res.defs) - countRefs(defs),
                                [i \in 1..Len(res.defCalls) |-> res.defCalls[i].id], FALSE)
  /\ rendered' = rendered + 1
  /\ UNCHANGED <<name2def, id2def>>

---------------------------------------------------------------------------
(* getReverseRefs *)

refIdGenerator_ZeroBased(ds, ref) == ds[ref.def].id \o <<"-ref-", ToString(ref.index)>>

refIdGenerator(ds, ref) == ds[ref.def].id \o <<"-ref-", ToString(ref.index + 1)>>

ById(i) == [by |-> "id", value |-> i]

ByName(n) == [by |-> "name", value |-> n]

getReverseRefs_AnyKey(reg, options) ==
  LET byId == Get(reg.id2def, options.value)
      byName == Get(reg.name2def, options.value)
      def == IF options.by = "id" THEN (IF byId = Undefined THEN byName ELSE byId)
             ELSE byName
  IN IF def = Undefined
     THEN [err |-> "notfound", result |-> <<>>]
     ELSE [err |-> "none",
           result |-> [i \in 1..Len(reg.defs[def].refs) |->
                         <<reg.defs[def].refs[i].path, "#">> \o refIdGenerator(reg.defs, reg.defs[def].refs[i])]]

getReverseRefs(reg, options) ==
  LET def == IF options.by = "id" THEN Get(reg.id2def, options.value)
             ELSE Get(reg.name2def, options.value)
  IN IF def = Undefined
     THEN [err |-> "notfound", result |-> <<>>]
     ELSE [err |-> "none",
           result |-> [i \in 1..Len(reg.defs[def].refs) |->
                         <<reg.defs[def].refs[i].path, "#">> \o refIdGenerator(reg.defs, reg.defs[def].refs[i])]]

Queries == {ById(<<"x">>), ById(<<"b">>), ByName(<<"a">>), ByName(<<"b">>)}

GetReverseRefs(queries) ==
  /\ \E options \in queries :
       LET res == getReverseRefs(Registry, options)
       IN last' = Outcome("getReverseRefs", res.err, <<options.by>> \o options.value, 0, res.result, FALSE)
  /\ UNCHANGED <<name2def, id2def, defs, rendered, invoked>>

---------------------------------------------------------------------------
(* Specifications *)

Init ==
  /\ name2def = <<>>
  /\ id2def = <<>>
  /\ defs = <<>>
  /\ rendered = 0
  /\ invoked = {}
  /\ last = Outcome("new", "none", <<>>, 0, <<>>, FALSE)

(* Definition collection over the whole family of definition markers. *)
NextCollect == CollectDefinition(CollectDocs)

SpecCollect == Init /\ [][NextCollect]_vars

(* Collection, rendering and reverse lookup over the two-definition corpus. *)
Next ==
  \/ CollectDefinition(CorpusDocs)
  \/ RenderText(RenderDocs)
  \/ GetReverseRefs(Queries)

Spec == Init /\ [][Next]_vars

(* Collection and rendering over the two-definition corpus. *)
NextRender ==
  \/ CollectDefinition(CorpusDocs)
  \/ RenderText(RenderDocs)

SpecRender == Init /\ [][NextRender]_vars

(* Collection and rendering of definitions with overlapping names. *)
NextOverlap ==
  \/ CollectDefinition(OverlapCorpus)
  \/ RenderText(OverlapDocs)

SpecOverlap == Init /\ [][NextOverlap]_vars

(* Collection and rendering of definitions whose ids come from the slug of *)
(* their names.                                                            *)
NextSlug ==
  \/ CollectDefinition(SlugDocs)
  \/ RenderText(SlugDocs)

SpecSlug == Init /\ [][NextSlug]_vars

---------------------------------------------------------------------------
(* Properties *)

Held == {name2def[i].def : i \in 1..Len(name2def)} \cup {id2def[i].def : i \in 1..Len(id2def)}

IdOf(m) == IF m.id = <<>> THEN defIdGenerator(m.name) ELSE m.id

(* C1: any two distinct definitions held in the registry have different ids, *)
(* and no name or alias of one is a name or alias of the other.              *)
C1_DistinctDefinitions ==
  \A h1 \in Held : \A h2 \in Held :
    h1 # h2 => /\ defs[h1].id # defs[h2].id
               /\ NamesOf(defs[h1]) \cap NamesOf(defs[h2]) = {}

C1_Witness ==
  /\ Cardinality(Held) >= 2
  /\ last.op = "collectDefinition"
  /\ last.err # "none"

(* the names and aliases, and the ids, registered once the definitions     *)
(* before position i of the text are in the registry                       *)
NamesBefore(text, i) == Keys(name2def) \cup UNION {NamesOf(text[j]) : j \in 1..(i - 1)}

IdsBefore(text, i) == Keys(id2def) \cup {IdOf(text[j]) : j \in 1..(i - 1)}

Clashes(text, i) ==
  \/ text[i].name \in NamesBefore(text, i)
  \/ Range(text[i].alias) \cap NamesBefore(text, i) # {}
  \/ IdOf(text[i]) \in IdsBefore(text, i)

(* C2: collectDefinition fails with a duplicate error whenever a parsed     *)
(* definition's name or one of its aliases is already a key of name2def, or *)
(* its id (explicit or generated) is already a key of id2def, the earlier   *)
(* definition coming from a previous document or from the same text.        *)
C2_DuplicateFails ==
  \A text \in CollectDocs :
    (\E i \in 1..Len(text) : Clashes(text, i)) =>
      collectDefinition(Registry, text).err \in {"name", "id"}

C2_Witness ==
  /\ last.op = "collectDefinition"
  /\ last.err = "id"
  /\ last.done = 1
  /\ Len(defs) = 1

IdsDistinct(text) ==
  /\ Cardinality({IdOf(text[i]) : i \in 1..Len(text)}) = Len(text)
  /\ {IdOf(text[i]) : i \in 1..Len(text)} \cap Keys(id2def) = {}

(* C3 as stated: a collectDefinition call on a text whose names and aliases  *)
(* are pairwise distinct, and distinct from those collected before, raises  *)
(* no duplicate error.                                                      *)
C3_DistinctNamesSucceed ==
  (last.op = "collectDefinition" /\ last.fresh) => last.err = "none"

(* C3: a text whose names and aliases are pairwise distinct and new, and     *)
(* whose ids (explicit, or generated from the name) are pairwise distinct    *)
(* and new, is collected without an error and every definition registered.  *)
C3_DistinctNamesAndIdsSucceed ==
  \A text \in CollectDocs :
    (NamesDistinct(text) /\ IdsDistinct(text)) =>
      LET res == collectDefinition(Registry, text)
      IN res.err = "none" /\ res.done = Len(text)

C3_Witness ==
  /\ last.op = "collectDefinition"
  /\ last.err = "none"
  /\ last.done = 1
  /\ Len(defs) = 2
  /\ \E h \in Held : defs[h].name = <<"A">> /\ defs[h].id = <<"x">>
  /\ \E h \in Held : defs[h].name = <<"a">> /\ defs[h].id = <<"a">>

Registered(m) == [name |-> m.name, alias |-> m.alias, id |-> IdOf(m), refs |-> <<>>]

(* C9: a collectDefinition call that fails on a duplicate stops at the first *)
(* clashing definition of the text; that definition adds no key, the keys   *)
(* held before the call keep their definitions, and the registry is its     *)
(* state before the call plus the definitions of the text before that one.  *)
C9_FailureKeepsEarlierOnly ==
  \A text \in CollectDocs :
    LET res == collectDefinition(Registry, text)
        k == res.done
        n == Len(defs)
    IN res.err # "none" =>
         /\ k < Len(text)
         /\ Clashes(text, k + 1)
         /\ \A i \in 1..k : ~Clashes(text, i)
         /\ res.reg.defs = defs \o [i \in 1..k |-> Registered(text[i])]
         /\ SubSeq(res.reg.name2def, 1, Len(name2def)) = name2def
         /\ SubSeq(res.reg.id2def, 1, Len(id2def)) = id2def
         /\ Keys(res.reg.name2def) = NamesBefore(text, k + 1)
         /\ Keys(res.reg.id2def) = IdsBefore(text, k + 1)
         /\ \A i \in 1..k :
              /\ \A key \in NamesOf(text[i]) : Get(res.reg.name2def, key) = n + i
              /\ Get(res.reg.id2def, IdOf(text[i])) = n + i

C9_Witness ==
  /\ last.op = "collectDefinition"
  /\ last.err # "none"
  /\ last.done = 1
  /\ Len(defs) = 2

Linking(refs) == SelectSeq(refs, LAMBDA r : r.type # "escaped")

(* C4: the explicit and implicit references of every definition carry the   *)
(* indices 0, 1, 2, ... in refs order, over all documents rendered so far.  *)
C4_LinkingIndicesConsecutive ==
  \A h \in 1..Len(defs) :
    LET lk == Linking(defs[h].refs)
    IN \A i \in 1..Len(lk) : lk[i].index = i - 1

(* a definition with no explicit reference whose first implicit occurrence   *)
(* is in the first document and whose second is in the second document      *)
C4_Witness ==
  \E h \in 1..Len(defs) :
    LET refs == defs[h].refs
    IN /\ Len(refs) = 2
       /\ refs[1].type = "implicit" /\ refs[1].index = 0 /\ refs[1].path = Paths[1]
       /\ refs[2].type = "implicit" /\ refs[2].index = 1 /\ refs[2].path = Paths[2]

(* C5: an escaped reference recorded right after an explicit reference to   *)
(* the same definition has the index of that explicit reference, and the    *)
(* next explicit or implicit reference to the definition has that index     *)
(* plus one.                                                                *)
C5_EscapedKeepsOrdinal ==
  \A h \in 1..Len(defs) :
    LET refs == defs[h].refs
    IN \A i \in 1..(Len(refs) - 1) :
         (refs[i].type = "explicit" /\ refs[i + 1].type = "escaped") =>
           /\ refs[i + 1].index = refs[i].index
           /\ \A j \in (i + 2)..Len(refs) :
                (refs[j].type # "escaped" /\ \A k \in (i + 1)..(j - 1) : refs[k].type = "escaped")
                  => refs[j].index = refs[i].index + 1

C5_Witness ==
  \E h \in 1..Len(defs) :
    LET refs == defs[h].refs
    IN \E i \in 1..(Len(refs) - 2) :
         /\ refs[i].type = "explicit" /\ refs[i].index = 1
         /\ refs[i + 1].type = "escaped" /\ refs[i + 1].index = 1
         /\ refs[i + 2].type = "implicit" /\ refs[i + 2].index = 2

(* C6: for every registered definition, getReverseRefs by its id, by its    *)
(* name and by each of its aliases return the same sequence.                *)
C6_SameResultByIdNameAlias ==
  \A h \in Held :
    LET byId == getReverseRefs(Registry, ById(defs[h].id))
    IN /\ byId.err = "none"
       /\ \A n \in NamesOf(defs[h]) : getReverseRefs(Registry, ByName(n)) = byId

C6_Witness ==
  /\ last.op = "getReverseRefs"
  /\ last.key = <<"name", "b">>
  /\ Len(last.result) >= 2
  /\ \E h \in Held : <<"b">> \in Range(defs[h].alias) /\ defs[h].id = <<"x">>

Anchor(path, id, k) == <<path, "#">> \o id \o <<"-ref-", ToString(k)>>

(* the number of explicit and implicit references among the first i of refs *)
LinkingUpTo(refs, i) == Len(Linking(SubSeq(refs, 1, i)))

(* C7: getReverseRefs returns one entry per Reference of the definition,    *)
(* escaped ones included, in refs order, each "<path>#<id>-ref-<index+1>";  *)
(* the k-th explicit or implicit reference of the definition with id X,     *)
(* found in document P, yields "P#X-ref-k".                                 *)
C7_OneAnchorPerReference ==
  \A h \in Held :
    LET refs == defs[h].refs
        res == getReverseRefs(Registry, ById(defs[h].id))
    IN /\ res.err = "none"
       /\ Len(res.result) = Len(refs)
       /\ \A i \in 1..Len(refs) :
            /\ res.result[i] = Anchor(refs[i].path, defs[h].id, refs[i].index + 1)
            /\ refs[i].type # "escaped" =>
                 res.result[i] = Anchor(refs[i].path, defs[h].id, LinkingUpTo(refs, i))

C7_Witness ==
  /\ last.op = "getReverseRefs"
  /\ last.err = "none"
  /\ last.result = <<Anchor(Paths[1], <<"a">>, 1), Anchor(Paths[1], <<"a">>, 1), Anchor(Paths[2], <<"a">>, 2)>>

AnyQuery == {ById(k) : k \in Keys(name2def) \cup Keys(id2def)} \cup {ByName(k) : k \in Keys(name2def) \cup Keys(id2def)} \cup Queries

(* C8: getReverseRefs with an id that is no key of id2def, or a name that   *)
(* is no key of name2def, fails with a not-found error and returns nothing. *)
C8_UnknownKeyNotFound ==
  \A q \in AnyQuery :
    ((q.by = "id" /\ q.value \notin Keys(id2def)) \/ (q.by = "name" /\ q.value \notin Keys(name2def)))
      => getReverseRefs(Registry, q) = [err |-> "notfound", result |-> <<>>]

(* a lookup by id of a string that is a registered alias but no id *)
C8_Witness ==
  /\ last.op = "getReverseRefs"
  /\ last.err = "notfound"
  /\ last.key = <<"id", "b">>
  /\ Has(name2def, <<"b">>)

Dangling(doc) == \E i \in 1..Len(doc) : doc[i].kind = "explicit" /\ ~Has(id2def, doc[i].id)

(* C10: rendering a document that holds an explicit reference marker whose  *)
(* identifier is no key of id2def fails, and the call records no Reference  *)
(* in any definition's refs.                                                *)
C10_DanglingReferenceFails ==
  rendered < Len(Paths) =>
    \A doc \in RenderDocs :
      (escapedKnown(doc, name2def) /\ Dangling(doc)) =>
        LET res == renderText(Registry, Paths[rendered + 1], doc)
        IN res.err = "notfound" /\ res.defs = defs

(* a failing renderText call after references were recorded *)
C10_Witness ==
  /\ last.op = "renderText"
  /\ last.err = "notfound"
  /\ last.key = <<"x">>
  /\ last.done = 0
  /\ \E h \in Held : Len(defs[h].refs) >= 2

(* C11: every definition stored in the registry by collectDefinition, and   *)
(* every definition renderText hands to defRenderer, has a non-empty id.    *)
C11_IdsNonEmpty ==
  /\ \A h \in Held : defs[h].id # <<>>
  /\ last.op = "renderText" => \A i \in 1..Len(last.result) : last.result[i] # <<>>

(* C12: the names under which definitions are registered are pairwise       *)
(* distinct: every alias of a registered definition differs from every      *)
(* primary name in the registry, its own included, and from every other     *)
(* alias entry, of the same definition or of another.                       *)
C12_KeysDistinctAsNames ==
  \A h \in Held : \A i \in 1..Len(defs[h].alias) :
    /\ \A g \in Held : defs[h].alias[i] # defs[g].name
    /\ \A g \in Held : \A j \in 1..Len(defs[g].alias) :
         (g # h \/ j # i) => defs[h].alias[i] # defs[g].alias[j]

(* The documents renderText can be given in the current state, on the path *)
(* of the next call.                                                        *)
RenderableIn(docs) ==
  IF rendered < Len(Paths) THEN {doc \in docs : escapedKnown(doc, name2def)} ELSE {}

Renderable == RenderableIn(RenderDocs)

CountBy(fs, stages) == Len(SelectSeq(fs, LAMBDA f : f.by \in stages))

CountKind(doc, kind) == Len(SelectSeq(doc, LAMBDA it : it.kind = kind))

RewrittenBy(fs, stages) == SelectSeq(fs, LAMBDA f : f.by \in stages)

RECURSIVE Concat(_)
Concat(ss) == IF ss = <<>> THEN <<>> ELSE Head(ss) \o Concat(Tail(ss))

(* C13: in one renderText call every definition marker is rewritten by the  *)
(* definition stage and every explicit or escaped marker by the marker      *)
(* stage; what these stages rewrote reaches the end of the call untouched   *)
(* by the implicit passes; exactly the rewritten fragments are marked skip; *)
(* the slices of the final fragments, put end to end, are the document, so  *)
(* that no part of it is rewritten twice; and the call records one          *)
(* Reference per fragment rewritten by a reference stage, none for a        *)
(* definition.                                                              *)
C13_EachSliceRewrittenOnce ==
  \A doc \in Renderable :
    \A s1 \in {renderDefinition(doc)} :
    \A s2 \in {renderExplicitOrEscapedReference(Registry, Paths[rendered + 1], s1.fragments)} :
    \A res \in {renderText(Registry, Paths[rendered + 1], doc)} :
    LET early == {"def", "explicit", "escaped"}
    IN res.err = "none" =>
       /\ CountBy(res.fragments, {"def"}) = CountKind(doc, "def")
       /\ CountBy(res.fragments, {"explicit"}) = CountKind(doc, "explicit")
       /\ CountBy(res.fragments, {"escaped"}) = CountKind(doc, "escaped")
       /\ RewrittenBy(s2.fragments, {"def"}) = RewrittenBy(s1.fragments, {"def"})
       /\ RewrittenBy(res.fragments, early) = RewrittenBy(s2.fragments, early)
       /\ \A i \in 1..Len(res.fragments) : res.fragments[i].skip <=> res.fragments[i].by # "none"
       /\ Concat([i \in 1..Len(res.fragments) |-> res.fragments[i].src])
            = Concat([i \in 1..Len(doc) |-> MarkerText(doc[i])])
       /\ countRefs(res.defs) - countRefs(defs)
            = CountBy(res.fragments, {"explicit", "escaped", "implicit"})

(* an escaped marker whose text is a registered name was rewritten to that  *)
(* name and no implicit pass matched it                                     *)
C13_Witness ==
  /\ last.op = "renderText" /\ last.err = "none" /\ last.done = 1
  /\ \E h \in Held : /\ Len(defs[h].refs) = 1
                      /\ defs[h].refs[1].type = "escaped"
                      /\ defs[h].refs[1].name = defs[h].name

(* C14, as stated: every recorded Reference, of any type, has an index      *)
(* greater than or equal to 0.                                              *)
C14_IndicesNonNegative ==
  \A h \in 1..Len(defs) : \A i \in 1..Len(defs[h].refs) : defs[h].refs[i].index >= 0

(* C14, amended: every explicit or implicit Reference has an index greater  *)
(* than or equal to 0; an escaped Reference has an index greater than or    *)
(* equal to -1, and -1 exactly when no explicit or implicit reference       *)
(* precedes it in the refs of its definition.                               *)
C14_OnlyLeadingEscapedBelowZero ==
  \A h \in 1..Len(defs) : \A i \in 1..Len(defs[h].refs) :
    LET r == defs[h].refs[i]
    IN IF r.type = "escaped"
       THEN r.index >= -1 /\ (r.index = -1 <=> LinkingUpTo(defs[h].refs, i - 1) = 0)
       ELSE r.index >= 0

(* an escaped reference was recorded first, an explicit or implicit one     *)
(* after it                                                                 *)
C14_Witness ==
  \E h \in Held : /\ Len(defs[h].refs) >= 2
                  /\ defs[h].refs[1].type = "escaped" /\ defs[h].refs[1].index = -1
                  /\ defs[h].refs[2].type # "escaped" /\ defs[h].refs[2].index = 0

IsPrefix(s, t) == Len(s) <= Len(t) /\ SubSeq(t, 1, Len(s)) = s

(* every key of the map m is a key of the map n, for the same definition *)
Keeps(m, n) == \A i \in 1..Len(m) : Get(n, m[i].key) = m[i].def

(* C15: over every collectDefinition, renderText and getReverseRefs call,   *)
(* each definition keeps its name, aliases and id, the refs it had are a    *)
(* prefix of the refs it has afterwards (no recorded Reference is changed   *)
(* or dropped), and every key of name2def and id2def stays registered for   *)
(* the same definition.                                                     *)
C15_RefsAppendOnly ==
  [][/\ Len(defs) <= Len(defs')
     /\ \A h \in 1..Len(defs) :
          /\ defs'[h].name = defs[h].name
          /\ defs'[h].alias = defs[h].alias
          /\ defs'[h].id = defs[h].id
          /\ IsPrefix(defs[h].refs, defs'[h].refs)
     /\ Keeps(name2def, name2def')
     /\ Keeps(id2def, id2def')]_vars

(* a definition referenced in both rendered documents: the second call      *)
(* appended after the references of the first                               *)
C15_Witness ==
  \E h \in Held : \E i, j \in 1..Len(defs[h].refs) :
    i < j /\ defs[h].refs[i].path = Paths[1] /\ defs[h].refs[j].path = Paths[2]

(* the explicit and escaped markers of the document that target h, in       *)
(* document order                                                           *)
MarkersFor(doc, h) ==
  SelectSeq(doc, LAMBDA it : \/ it.kind = "explicit" /\ Get(id2def, it.id) = h
                             \/ it.kind = "escaped" /\ Get(name2def, it.name) = h)

(* the position of a name or alias in the insertion order of name2def *)
KeyRank(name) == CHOOSE i \in 1..Len(name2def) : name2def[i].key = name

(* C16: the references one renderText call appends to the refs of one       *)
(* definition are first those of the explicit and escaped markers of the    *)
(* document that target it, in document order, then the implicit ones,      *)
(* ordered by the position of the matched name or alias in name2def; the    *)
(* indices never decrease along that order and getReverseRefs lists the     *)
(* anchors in that order.                                                   *)
C16_StageOrder ==
  \A doc \in Renderable : \A res \in {renderText(Registry, Paths[rendered + 1], doc)} :
   \A h \in 1..Len(defs) :
    LET old == Len(defs[h].refs)
        new == SubSeq(res.defs[h].refs, old + 1, Len(res.defs[h].refs))
        m == MarkersFor(doc, h)
        rev == getReverseRefs([Registry EXCEPT !.defs = res.defs], ByName(defs[h].name)).result
    IN res.err = "none" =>
       /\ Len(new) >= Len(m)
       /\ \A i \in 1..Len(m) :
            /\ new[i].type = m[i].kind
            /\ new[i].name = IF m[i].kind = "escaped" THEN m[i].name ELSE defs[h].name
       /\ \A i \in (Len(m) + 1)..Len(new) :
            /\ new[i].type = "implicit"
            /\ Get(name2def, new[i].name) = h
       /\ \A i, j \in (Len(m) + 1)..Len(new) : i < j => KeyRank(new[i].name) <= KeyRank(new[j].name)
       /\ \A i, j \in 1..Len(new) : i < j => new[i].index <= new[j].index
       /\ Len(rev) = old + Len(new)
       /\ \A i \in 1..Len(new) : rev[old + i] = Anchor(new[i].path, defs[h].id, new[i].index + 1)

(* one call recorded an explicit reference and then implicit ones for "ab"  *)
(* and for "b", although in the text "bab" the "b" precedes the "ab"         *)
C16_Witness ==
  /\ last.op = "renderText"
  /\ \E h \in Held : \E k \in 1..Len(defs[h].refs) :
       /\ k + 2 = Len(defs[h].refs)
       /\ defs[h].refs[k].type = "explicit"
       /\ defs[h].refs[k + 1].type = "implicit" /\ defs[h].refs[k + 1].name = <<"a", "b">>
       /\ defs[h].refs[k + 2].type = "implicit" /\ defs[h].refs[k + 2].name = <<"b">>
       /\ \A i \in {k, k + 1, k + 2} : defs[h].refs[i].path = Paths[rendered]

(* the positions of the document covered by the i-th fragment *)
Interval(fs, i) ==
  LET before == Len(Concat([j \in 1..(i - 1) |-> fs[j].src]))
  IN (before + 1)..(before + Len(fs[i].src))

(* the places (sets of positions) where name occurs in the text of the      *)
(* document                                                                 *)
Occurrences(doc, name) ==
  UNION {LET before == Len(Concat([j \in 1..(t - 1) |-> MarkerText(doc[j])]))
         IN {(before + p)..(before + p + Len(name) - 1) :
               p \in {q \in 1..(Len(doc[t].name) - Len(name) + 1) :
                        SubSeq(doc[t].name, q, q + Len(name) - 1) = name}}
         : t \in {u \in 1..Len(doc) : doc[u].kind = "text"}}

(* the fragments an implicit pass rewrote and that overlap the place J *)
ImplicitOver(fs, J) == {g \in 1..Len(fs) : fs[g].by = "implicit" /\ Interval(fs, g) \cap J # {}}

(* C17, as stated: when a name or alias inserted earlier and one inserted   *)
(* later occur at overlapping places of a document, renderText records the  *)
(* implicit Reference of the earlier one there and none for the later one.  *)
C17_FirstInsertedWins ==
  \A doc \in RenderableIn(OverlapDocs) :
    \A res \in {renderText(Registry, Paths[rendered + 1], doc)} :
    LET fs == res.fragments
    IN res.err = "none" =>
       \A k1, k2 \in Keys(name2def) :
         KeyRank(k1) < KeyRank(k2) =>
           \A J1 \in Occurrences(doc, k1) : \A J2 \in Occurrences(doc, k2) :
             J1 \cap J2 # {} =>
               /\ \E g \in ImplicitOver(fs, J1) : fs[g].src = k1 /\ Interval(fs, g) = J1
               /\ ~ \E g \in ImplicitOver(fs, J2) : fs[g].src = k2 /\ Interval(fs, g) = J2

(* C17, amended: every implicit Reference is for a place where the matched  *)
(* name or alias occurs, and every occurrence of a registered name or alias *)
(* in the text either got its Reference or overlaps text matched by the     *)
(* pass of that name or of one inserted before it; so a later name gets no  *)
(* Reference where an earlier pass matched, but it can get one inside an    *)
(* occurrence of an earlier name that was itself pre-empted.                *)
C17_EarlierMatchPreempts ==
  \A doc \in RenderableIn(OverlapDocs) :
    \A res \in {renderText(Registry, Paths[rendered + 1], doc)} :
    LET fs == res.fragments
    IN res.err = "none" =>
       /\ \A g \in 1..Len(fs) :
            fs[g].by = "implicit" => Has(name2def, fs[g].src) /\ Interval(fs, g) \in Occurrences(doc, fs[g].src)
       /\ \A k \in Keys(name2def) : \A J \in Occurrences(doc, k) :
            \E g \in ImplicitOver(fs, J) : KeyRank(fs[g].src) <= KeyRank(k)

(* "a", "ab" and "b" were inserted in this order and the text "bab" was     *)
(* rendered: "a" took the middle, "ab" got nothing, and "b", inserted after *)
(* "ab", was matched twice, once inside the occurrence of "ab"              *)
C17_Witness ==
  /\ last.op = "renderText" /\ last.done = 3
  /\ [i \in 1..Len(name2def) |-> name2def[i].key] = <<<<"a">>, <<"a", "b">>, <<"b">>>>
  /\ Len(defs[Get(name2def, <<"a">>)].refs) = 1
  /\ Len(defs[Get(name2def, <<"a", "b">>)].refs) = 0
  /\ Len(defs[Get(name2def, <<"b">>)].refs) = 2
  /\ \A h \in Held : \A i \in 1..Len(defs[h].refs) : defs[h].refs[i].type = "implicit"

(* C18: a renderText call leaves name2def and id2def as they were, adds no  *)
(* definition and changes nothing of a registered definition but its refs,  *)
(* even when it renders the marker of a definition that was not collected;  *)
(* a getReverseRefs call, successful or failing, leaves name2def, id2def    *)
(* and every definition, refs included, as they were.                       *)
C18_QueriesAndRenderingKeepRegistry ==
  [][/\ last'.op = "renderText" =>
          /\ name2def' = name2def
          /\ id2def' = id2def
          /\ Len(defs') = Len(defs)
          /\ \A h \in 1..Len(defs) : [defs'[h] EXCEPT !.refs = defs[h].refs] = defs[h]
     /\ last'.op = "getReverseRefs" => name2def' = name2def /\ id2def' = id2def /\ defs' = defs]_vars

(* the marker of the definition "a" was rendered, its id handed to          *)
(* defRenderer, and "a" is not registered                                   *)
C18_Witness ==
  /\ last.op = "renderText" /\ last.err = "none"
  /\ last.result = <<<<"a">>>>
  /\ ~Has(name2def, <<"a">>) /\ ~Has(id2def, <<"a">>)

(* the definition the last getReverseRefs call looked up *)
Queried ==
  IF Head(last.key) = "id" THEN Get(id2def, Tail(last.key)) ELSE Get(name2def, Tail(last.key))

(* C19, as stated: every entry returned by getReverseRefs is the anchor of  *)
(* a refRenderer invocation for that definition, made by a renderText call  *)
(* on the path of the entry with the index the anchor is derived from.      *)
C19_EntriesRendered ==
  (last.op = "getReverseRefs" /\ last.err = "none") =>
    \A i \in 1..Len(last.result) :
      \E c \in invoked : /\ c.def = Queried
                          /\ last.result[i] = Anchor(c.path, defs[Queried].id, c.index + 1)

(* C19, amended: the entry of an explicit or implicit Reference is the      *)
(* anchor of a refRenderer invocation on the path of the entry; the entry   *)
(* of an escaped Reference repeats, with the path of the escaped marker,    *)
(* the anchor of the last explicit or implicit Reference recorded before    *)
(* it for that definition, wherever that one was rendered, and is the       *)
(* anchor "-ref-0", which no invocation has, when there is none.            *)
C19_LinkingEntriesRendered ==
  \A h \in Held :
    LET refs == defs[h].refs
        rev == getReverseRefs(Registry, ById(defs[h].id)).result
    IN /\ Len(rev) = Len(refs)
       /\ \A c \in invoked : c.index >= 0
       /\ \A i \in 1..Len(refs) :
            /\ rev[i] = Anchor(refs[i].path, defs[h].id, refs[i].index + 1)
            /\ refs[i].type # "escaped" => Invocation(refs[i]) \in invoked
            /\ refs[i].type = "escaped" =>
                 IF LinkingUpTo(refs, i - 1) = 0
                 THEN refs[i].index = -1
                 ELSE \E j \in 1..(i - 1) : /\ refs[j].type # "escaped"
                                             /\ refs[j].index = refs[i].index
                                             /\ Invocation(refs[j]) \in invoked

(* getReverseRefs returned, for an escaped reference of the second          *)
(* document, the anchor rendered in the first                               *)
C19_Witness ==
  /\ last.op = "getReverseRefs"
  /\ last.result = <<Anchor(Paths[1], <<"a">>, 1), Anchor(Paths[2], <<"a">>, 1)>>
  /\ \E h \in Held : /\ Len(defs[h].refs) = 2
                      /\ defs[h].refs[1].type # "escaped"
                      /\ defs[h].refs[2].type = "escaped"

(* C20: name2def and id2def hold the same definitions; each of them is      *)
(* found in id2def under its id, and under no other key, and in name2def    *)
(* under its name and under every one of its aliases, and under no other    *)
(* key.                                                                     *)
C20_MapsConsistent ==
  /\ {name2def[i].def : i \in 1..Len(name2def)} = {id2def[i].def : i \in 1..Len(id2def)}
  /\ \A h \in Held :
       /\ h \in 1..Len(defs)
       /\ Get(id2def, defs[h].id) = h
       /\ Get(name2def, defs[h].name) = h
       /\ \A k \in 1..Len(defs[h].alias) : Get(name2def, defs[h].alias[k]) = h
  /\ \A i \in 1..Len(id2def) : id2def[i].key = defs[id2def[i].def].id
  /\ \A i \in 1..Len(name2def) :
       name2def[i].key \in {defs[name2def[i].def].name} \cup Range(defs[name2def[i].def].alias)

(* two definitions are registered, one of them with two aliases and an      *)
(* explicit id, after a call that failed on a third                         *)
C20_Witness ==
  /\ last.op = "collectDefinition" /\ last.err # "none"
  /\ Len(defs) = 2
  /\ \E h \in Held : Len(defs[h].alias) = 2 /\ defs[h].id = <<"x">>
  /\ \E h \in Held : defs[h].alias = <<>>

====
